---- MODULE Spec2Model ----
(***************************************************************************)
(* Product catalog service: CSV upload (routes.upload_csv), the row        *)
(* pipeline (CSVService.validate_and_store_products), the row cleaner      *)
(* (CSVService._prepare_product_data), the pydantic schema (ProductBase)   *)
(* and the products table (models.Product); the listing and the search     *)
(* (routes.list_products, routes.search_products, ProductService).         *)
(*                                                                         *)
(* Text is a sequence of one-character strings, so that str.strip(),       *)
(* float() and int() are computed and not assumed.  A float is held in     *)
(* hundredths (fixed point): "10.01" is 1001.  Only literals of the form   *)
(* [sign] digits [. digits] with at most two decimals are given as input.  *)
(***************************************************************************)
EXTENDS Integers, Sequences, FiniteSets, TLC

(***************************************************************************)
(* Text helpers                                                            *)
(***************************************************************************)
\* Python's None, as a text value no cell can hold
None == <<"<None>">>

DigitChars == <<"0", "1", "2", "3", "4", "5", "6", "7", "8", "9">>

IsDigit(c) == \E i \in 1..10 : DigitChars[i] = c

DigitVal(c) == (CHOOSE i \in 1..10 : DigitChars[i] = c) - 1

RECURSIVE LStrip(_)
LStrip(s) == IF s # <<>> /\ Head(s) = " " THEN LStrip(Tail(s)) ELSE s

RECURSIVE RStrip(_)
RStrip(s) ==
    IF s # <<>> /\ s[Len(s)] = " " THEN RStrip(SubSeq(s, 1, Len(s) - 1)) ELSE s

\* str.strip()
Strip(s) == RStrip(LStrip(s))

AllDigits(s) == Len(s) > 0 /\ \A i \in 1..Len(s) : IsDigit(s[i])

RECURSIVE NatValue(_)
NatValue(s) ==
    IF s = <<>> THEN 0
    ELSE 10 * NatValue(SubSeq(s, 1, Len(s) - 1)) + DigitVal(s[Len(s)])

HasSign(s) == s # <<>> /\ Head(s) \in {"-", "+"}

Unsigned(s) == IF HasSign(s) THEN Tail(s) ELSE s

Signed(s, n) == IF s # <<>> /\ Head(s) = "-" THEN 0 - n ELSE n

\* position of the decimal point, 0 when there is none
DotPos(s) ==
    IF \E i \in 1..Len(s) : s[i] = "."
    THEN CHOOSE i \in 1..Len(s) : s[i] = "." /\ \A j \in 1..(i - 1) : s[j] # "."
    ELSE 0

IntPart(s) == IF DotPos(s) = 0 THEN s ELSE SubSeq(s, 1, DotPos(s) - 1)

FracPart(s) == IF DotPos(s) = 0 THEN <<>> ELSE SubSeq(s, DotPos(s) + 1, Len(s))

\* int(s) succeeds: [sign] digits
IsIntLiteral(s) == AllDigits(Unsigned(s))

IntValue(s) == Signed(s, NatValue(Unsigned(s)))

\* float(s) succeeds: [sign] digits [. [digits]]
IsFloatLiteral(s) ==
    /\ AllDigits(IntPart(Unsigned(s)))
    /\ Len(FracPart(Unsigned(s))) <= 2
    /\ \A i \in 1..Len(FracPart(Unsigned(s))) : IsDigit(FracPart(Unsigned(s))[i])

\* float(s), in hundredths
FloatValue(s) ==
    LET u == Unsigned(s)
        f == FracPart(u)
        cents == IF Len(f) = 0 THEN 0
                 ELSE IF Len(f) = 1 THEN 10 * NatValue(f)
                 ELSE NatValue(f)
    IN  Signed(s, 100 * NatValue(IntPart(u)) + cents)

(***************************************************************************)
(* CSVService._prepare_product_data                                        *)
(***************************************************************************)
Columns == <<"sku", "name", "brand", "color", "size", "mrp", "price", "quantity">>

\* a cleaned numeric cell: the converted number, or the cell left as it was
Num(n) == [isnum |-> TRUE, v |-> n]

NotNum == [isnum |-> FALSE, v |-> 0]

\* the loop over row.items(): strip every cell, '' becomes None for color, size
CleanCell(k, v) ==
    IF Strip(v) = <<>> /\ k \in {"color", "size"} THEN None ELSE Strip(v)

\* "if 'mrp' in cleaned and cleaned['mrp']: cleaned['mrp'] = float(...)"
FloatRaises(v) == v # <<>> /\ ~IsFloatLiteral(v)

IntRaises(v) == v # <<>> /\ ~IsIntLiteral(v)

ToFloat(v) == IF v = <<>> THEN NotNum ELSE Num(FloatValue(v))

ToInt(v) == IF v = <<>> THEN NotNum ELSE Num(IntValue(v))

ValueErrorFloat == <<"", "could not convert string to float">>

ValueErrorInt == <<"", "invalid literal for int() with base 10">>

\* the result of the call: the exception it raises, or the cleaned dictionary.
\* The conversions run in the order mrp, price, quantity; the first that
\* raises ends the call.
_prepare_product_data(row) ==
    LET mrp == CleanCell("mrp", row.mrp)
        price == CleanCell("price", row.price)
        quantity == CleanCell("quantity", row.quantity)
        raised == FloatRaises(mrp) \/ FloatRaises(price) \/ IntRaises(quantity)
        exc == IF FloatRaises(mrp) \/ FloatRaises(price)
               THEN ValueErrorFloat ELSE ValueErrorInt
    IN  IF raised
        THEN [raised |-> TRUE, exc |-> exc, data |-> <<>>]
        ELSE [raised |-> FALSE, exc |-> <<>>,
              data |-> [sku |-> CleanCell("sku", row.sku),
                        name |-> CleanCell("name", row.name),
                        brand |-> CleanCell("brand", row.brand),
                        color |-> CleanCell("color", row.color),
                        size |-> CleanCell("size", row.size),
                        mrp |-> ToFloat(mrp),
                        price |-> ToFloat(price),
                        quantity |-> ToInt(quantity)]]

(***************************************************************************)
(* schemas.ProductBase / ProductCreate (pydantic): every field is          *)
(* validated, in declaration order, and the errors of all fields are       *)
(* collected; within one field the Field(...) constraint runs before the   *)
(* field_validator, which runs only when the constraint passed.            *)
(***************************************************************************)
\* Field(min_length=1)
MinLength1(v) == Len(v) >= 1

\* validate_not_empty: "if not v or not v.strip()"
NotEmpty(v) == v # <<>> /\ Strip(v) # <<>>

\* Field(gt=0)
GtZero(v) == v > 0

\* mutant: a quantity that must be positive
GeZeroExclusive(v) == v > 0

\* Field(ge=0)
GeZero(v) == v >= 0

\* validate_price: the value is refused when price > mrp
PriceWithinMrp(price, mrp) == ~(price > mrp)

\* sku, name, brand: the error of the field, if any
StrFieldErrors(loc, v) ==
    IF ~MinLength1(v) THEN << <<loc, "String should have at least 1 character">> >>
    ELSE IF ~NotEmpty(v) THEN << <<loc, "Value error, cannot be empty or whitespace">> >>
    ELSE <<>>

\* mrp
MrpErrors(c) ==
    IF ~c.isnum THEN << <<"mrp", "Input should be a valid number">> >>
    ELSE IF ~GtZero(c.v) THEN << <<"mrp", "Input should be greater than 0">> >>
    ELSE <<>>

\* price: validate_price reads info.data, which holds mrp only when mrp
\* itself was validated without error
PriceErrors(c, mrp) ==
    IF ~c.isnum THEN << <<"price", "Input should be a valid number">> >>
    ELSE IF ~GtZero(c.v) THEN << <<"price", "Input should be greater than 0">> >>
    ELSE IF MrpErrors(mrp) = <<>> /\ ~PriceWithinMrp(c.v, mrp.v)
         THEN << <<"price", "Value error, price must be less than or equal to mrp">> >>
    ELSE <<>>

\* quantity
QuantityErrors(c) ==
    IF ~c.isnum THEN << <<"quantity", "Input should be a valid integer">> >>
    ELSE IF ~GeZero(c.v) THEN << <<"quantity", "Input should be greater than or equal to 0">> >>
    ELSE <<>>

\* e.errors() of ProductCreate(**product_data), in field order
SchemaErrors(d) ==
    StrFieldErrors("sku", d.sku) \o StrFieldErrors("name", d.name)
        \o StrFieldErrors("brand", d.brand)
        \o MrpErrors(d.mrp) \o PriceErrors(d.price, d.mrp) \o QuantityErrors(d.quantity)

\* product_schema.model_dump() of a row that validated
ModelDump(d) ==
    [sku |-> Strip(d.sku), name |-> Strip(d.name), brand |-> Strip(d.brand),
     color |-> d.color, size |-> d.size,
     mrp |-> d.mrp.v, price |-> d.price.v, quantity |-> d.quantity.v]

\* lines 51-54 of the loop body: prepare, then validate.  kind is "ok" (dump
\* holds the one dictionary to store), "validation" (pydantic ValidationError, one message per
\* failing field) or "exception" (any other exception, its text)
ValidateRow(row) ==
    LET p == _prepare_product_data(row)
    IN  IF p.raised
        THEN [kind |-> "exception", messages |-> <<p.exc>>, dump |-> <<>>]
        ELSE IF SchemaErrors(p.data) # <<>>
        THEN [kind |-> "validation", messages |-> SchemaErrors(p.data), dump |-> <<>>]
        ELSE [kind |-> "ok", messages |-> <<>>, dump |-> <<ModelDump(p.data)>>]

(***************************************************************************)
(* Bounds and inputs                                                       *)
(***************************************************************************)
\* data rows per uploaded file
MaxRows == 2

\* the two request handlers that may run at once
Uploads == {"u1", "u2"}

\* cells of the uploaded lines
A == <<"A">>
B == <<"B">>
N1 == <<"n", "1">>
N2 == <<"n", "2">>
Br == <<"b">>
Red == <<"r", "e", "d">>
M == <<"M">>
Blank == <<" ">>
T10 == <<"1", "0">>
T8 == <<"8">>
T5 == <<"5">>
T0 == <<"0">>

\* one line of the file: its cells in column order
PipelineLines ==
    { <<A, N1, Br, Red, M, T10, T10, T0>>,
      <<<<" ", "A", " ">>, N2, Br, Blank, <<>>, T10, T8, T5>>,
      <<B, N1, Br, Red, M, <<"2", "0">>, T5, <<"1">>>>,
      <<B, N1, Br, Red, M, T10, <<"1", "0", ".", "0", "1">>, T5>>,
      <<A, N2, Br, Red, M, T10, T8, <<"-", "1">>>> }

ConcurrentLines ==
    { <<A, N1, Br, Red, M, T10, T10, T0>>,
      <<<<" ", "A", " ">>, N2, Br, Blank, <<>>, T10, T8, T5>> }

RECURSIVE SeqsUpTo(_, _)
SeqsUpTo(S, n) ==
    IF n = 0 THEN {<<>>}
    ELSE SeqsUpTo(S, n - 1)
         \cup {Append(q, x) : q \in {t \in SeqsUpTo(S, n - 1) : Len(t) = n - 1}, x \in S}

\* file contents: nothing at all, or the header line and up to MaxRows lines
Contents(L) == {<<>>} \cup {<<Columns>> \o q : q \in SeqsUpTo(L, MaxRows)}

\* an uploaded file: its name ends in .csv or not, its bytes are valid UTF-8
\* or not, and the lines its text holds (the files that are not .csv or not
\* UTF-8 hold at most one data line)
Files ==
    {f \in [csv : BOOLEAN, utf8 : BOOLEAN, lines : Contents(PipelineLines)] :
        (f.csv /\ f.utf8) \/ Len(f.lines) <= 2}

ConcurrentFiles ==
    [csv : {TRUE}, utf8 : {TRUE},
     lines : {c \in Contents(ConcurrentLines) : Len(c) >= 2}]

NoFile == [csv |-> FALSE, utf8 |-> FALSE, lines |-> <<>>]

\* ValidateRow over every row a file can hold, computed once
ValidatedRows ==
    [row \in {[k \in {Columns[i] : i \in 1..Len(Columns)} |->
                 l[CHOOSE i \in 1..Len(Columns) : Columns[i] = k]] :
              l \in PipelineLines \cup ConcurrentLines} |-> ValidateRow(row)]

(***************************************************************************)
(* State                                                                   *)
(***************************************************************************)
VARIABLES
    db,                \* the committed rows of the products table
    pc,                \* per handler: "idle", "loop" (between rows), "commit"
    file,              \* per handler: the file of its request
    rows,              \* per handler: parse_csv's result
    idx,               \* per handler: enumerate(rows, start=2)'s index
    valid_count,
    invalid_count,
    errors,
    session,           \* per handler: its Session, "active" or "inactive"
    existing_product,  \* per handler: the row the query loaded, if any
    product_schema,    \* per handler: the validated row waiting for commit
    response,          \* per handler: the last response it sent
    lastValid,         \* history: per sku, the dump of the last row counted valid
    vrow,              \* validator only: the row under validation
    vout,              \* validator only: its result
    reply,             \* the response of the last GET request
    listed             \* the GET /products response before the last one

vars == <<db, pc, file, rows, idx, valid_count, invalid_count, errors, session,
          existing_product, product_schema, response, lastValid, vrow, vout,
          reply, listed>>

handlerVars == <<db, pc, file, rows, idx, valid_count, invalid_count, errors,
                 session, existing_product, product_schema, response, lastValid>>

(***************************************************************************)
(* models.Product and the Session's unit of work                           *)
(***************************************************************************)
ProductFields == {"sku", "name", "brand", "color", "size", "mrp", "price", "quantity"}

\* the columns of a stored row without its id
Fields(r) == [f \in ProductFields |-> r[f]]

\* INTEGER PRIMARY KEY: the next id of a table nothing is deleted from
NewId(table) ==
    IF table = {} THEN 1
    ELSE 1 + (CHOOSE i \in {r.id : r \in table} : \A r \in table : r.id <= i)

\* db.query(Product).filter(Product.sku == sku).first()
QueryFirst(table, sku) ==
    LET found == {r \in table : r.sku = sku}
    IN  IF found = {} THEN {}
        ELSE {CHOOSE r \in found : \A q \in found : r.id <= q.id}

\* mutant: the sku column without its unique index
NoUniqueIndex(table, sku) == FALSE

\* sku = Column(String, unique=True): the INSERT is refused
UniqueViolation(table, sku) == \E r \in table : r.sku = sku

\* mutant: an insert that replaces the table's contents
InsertTruncating(table, d) ==
    {[f \in ProductFields \cup {"id"} |-> IF f = "id" THEN NewId(table) ELSE d[f]]}

\* Product(**model_dump()); db.add(product): the INSERT of the flush
InsertProduct(table, d) ==
    table \cup {[f \in ProductFields \cup {"id"} |->
                    IF f = "id" THEN NewId(table) ELSE d[f]]}

\* mutant: an update that skips the keys whose new value is None
UpdateSkipNone(table, loaded, d) ==
    {IF r.id # loaded.id THEN r
     ELSE [f \in ProductFields \cup {"id"} |->
              IF f # "id" /\ d[f] # loaded[f] /\ (f \in {"color", "size"} => d[f] # None)
              THEN d[f] ELSE r[f]] : r \in table}

\* setattr(existing_product, key, value) for every key of the dump: the flush
\* emits UPDATE products SET <the attributes whose value differs from the
\* loaded one> WHERE id = <the loaded id>
UpdateProduct(table, loaded, d) ==
    {IF r.id # loaded.id THEN r
     ELSE [f \in ProductFields \cup {"id"} |->
              IF f # "id" /\ d[f] # loaded[f] THEN d[f] ELSE r[f]] : r \in table}

\* str(e) of the exceptions the store raises
OperationalError == <<"", "OperationalError">>

IntegrityError == <<"", "IntegrityError: UNIQUE constraint failed: products.sku">>

\* what a Session raises on every use after a flush or commit of its has
\* failed, until rollback() is called; the loop body never calls it
PendingRollbackError == <<"", "PendingRollbackError">>

(***************************************************************************)
(* CSVService.parse_csv                                                     *)
(***************************************************************************)
\* csv.DictReader: a line's cells keyed by the header line's names
DictRow(header, cells) ==
    [k \in {header[i] : i \in 1..Len(header)} |->
        cells[CHOOSE i \in 1..Len(header) : header[i] = k]]

\* mutant: decode(errors='ignore')
DecodeNeverRaises(f) == FALSE

\* file_content.decode('utf-8') raises UnicodeDecodeError
DecodeRaises(f) == ~f.utf8

\* list(csv.DictReader(...)): the first line is the header
parse_csv(f) ==
    IF f.lines = <<>> THEN <<>>
    ELSE [i \in 1..(Len(f.lines) - 1) |-> DictRow(f.lines[1], f.lines[i + 1])]

(***************************************************************************)
(* routes.upload_csv and CSVService.validate_and_store_products             *)
(***************************************************************************)
\* enumerate(rows, start=2)
EnumerateStart == 2

NoResponse == [status |-> 0, detail |-> "", body |-> <<>>]

NotRun == [kind |-> "none", messages |-> <<>>, dump |-> <<>>]

\* mutant: a loop that stops at the first row that failed
LoopDoneOrFailed(u) == idx[u] - EnumerateStart >= Len(rows[u]) \/ errors[u] # <<>>

\* the row the loop is at, and the end of the loop
CurrentRow(u) == rows[u][idx[u] - EnumerateStart + 1]

LoopDone(u) == idx[u] - EnumerateStart >= Len(rows[u])

\* the except clauses of upload_csv's try block, in order: UnicodeDecodeError
\* first, then Exception, which every other exception raised in the block
\* matches (HTTPException is a subclass of Exception)
ExceptStatus(exc) == IF exc = "UnicodeDecodeError" THEN 400 ELSE 500

\* the response of a request that ends before the row loop; status 0 when the
\* request goes on to the loop
Rejection(f) ==
    IF ~f.csv
    THEN [status |-> 400, detail |-> "Only CSV files are allowed", body |-> <<>>]
    ELSE IF DecodeRaises(f)
    THEN [status |-> ExceptStatus("UnicodeDecodeError"),
          detail |-> "Invalid CSV file encoding. Please use UTF-8 encoding",
          body |-> <<>>]
    ELSE IF parse_csv(f) = <<>>
    THEN [status |-> ExceptStatus("HTTPException"),
          detail |-> "Error processing CSV file: 400: CSV file is empty or has no data rows",
          body |-> <<>>]
    ELSE NoResponse

\* mutant: enumerate(rows, start=1)
ErrorEntryFromOne(i, row, messages) == [row |-> i - 1, data |-> row, errors |-> messages]

\* errors.append({"row": idx, "data": row, "errors": ...})
ErrorEntry(i, row, messages) == [row |-> i, data |-> row, errors |-> messages]

\* mutant: an except clause that forgets to count the row
CountInvalidForgotten(n) == n

\* invalid_count += 1
CountInvalid(n) == n + 1

\* valid_count += 1
CountValid(n) == n + 1

\* the return value of validate_and_store_products, sent with status 200
Summary(u) ==
    [status |-> 200, detail |-> "",
     body |-> <<[total_rows |-> Len(rows[u]), valid_rows |-> valid_count[u],
                 invalid_rows |-> invalid_count[u], errors |-> errors[u]]>>]

\* history: the dump d replaces what was recorded for its sku
Remember(h, d) == {x \in h : x.sku # d.sku} \cup {d}

\* POST /upload: the request is received and runs up to the row loop
Upload(u, f) ==
    /\ pc[u] = "idle"
    /\ file' = [file EXCEPT ![u] = f]
    /\ rows' = [rows EXCEPT ![u] = IF Rejection(f).status = 0 THEN parse_csv(f) ELSE <<>>]
    /\ idx' = [idx EXCEPT ![u] = EnumerateStart]
    /\ valid_count' = [valid_count EXCEPT ![u] = 0]
    /\ invalid_count' = [invalid_count EXCEPT ![u] = 0]
    /\ errors' = [errors EXCEPT ![u] = <<>>]
    /\ session' = [session EXCEPT ![u] = "active"]
    /\ response' = [response EXCEPT ![u] = Rejection(f)]
    /\ pc' = [pc EXCEPT ![u] = IF Rejection(f).status = 0 THEN "loop" ELSE "idle"]
    /\ UNCHANGED <<db, existing_product, product_schema, lastValid, vrow, vout, reply, listed>>

\* either except clause of the loop body: the row is counted invalid and the
\* loop goes to the next row
RowFails(u, messages) ==
    /\ invalid_count' = [invalid_count EXCEPT ![u] = CountInvalid(@)]
    /\ errors' = [errors EXCEPT ![u] =
                     Append(@, ErrorEntry(idx[u], CurrentRow(u), messages))]
    /\ idx' = [idx EXCEPT ![u] = @ + 1]
    /\ pc' = [pc EXCEPT ![u] = "loop"]
    /\ existing_product' = [existing_product EXCEPT ![u] = {}]
    /\ product_schema' = [product_schema EXCEPT ![u] = {}]
    /\ UNCHANGED <<db, valid_count, lastValid>>

\* lines 48-59: the next row is cleaned and validated and, when valid, the
\* existing product is queried.  The query raises on a Session whose last
\* flush failed (nothing in the loop calls rollback()), and may raise for
\* reasons of the store's own
ProcessRow(u) ==
    /\ pc[u] = "loop"
    /\ ~LoopDone(u)
    /\ LET v == ValidatedRows[CurrentRow(u)]
       IN  IF v.kind # "ok"
           THEN RowFails(u, v.messages) /\ UNCHANGED session
           ELSE IF session[u] = "inactive"
           THEN RowFails(u, <<PendingRollbackError>>) /\ UNCHANGED session
           ELSE \E fault \in BOOLEAN :
                  IF fault
                  THEN RowFails(u, <<OperationalError>>) /\ UNCHANGED session
                  ELSE /\ existing_product' =
                            [existing_product EXCEPT ![u] = QueryFirst(db, v.dump[1].sku)]
                       /\ product_schema' = [product_schema EXCEPT ![u] = {v.dump[1]}]
                       /\ pc' = [pc EXCEPT ![u] = "commit"]
                       /\ UNCHANGED <<db, idx, valid_count, invalid_count, errors,
                                      session, lastValid>>
    /\ UNCHANGED <<file, rows, response, vrow, vout, reply, listed>>

\* lines 61-71: update or add, then db.commit().  A flush or commit that
\* raises rolls the row's change back and leaves the Session inactive
Commit(u) ==
    /\ pc[u] = "commit"
    /\ LET d == CHOOSE x \in product_schema[u] : TRUE
           refused == existing_product[u] = {} /\ UniqueViolation(db, d.sku)
       IN  \E fault \in BOOLEAN :
             IF fault \/ refused
             THEN /\ RowFails(u, <<IF refused THEN IntegrityError ELSE OperationalError>>)
                  /\ session' = [session EXCEPT ![u] = "inactive"]
             ELSE /\ db' = IF existing_product[u] = {}
                           THEN InsertProduct(db, d)
                           ELSE UpdateProduct(db, CHOOSE x \in existing_product[u] : TRUE, d)
                  /\ valid_count' = [valid_count EXCEPT ![u] = CountValid(@)]
                  /\ idx' = [idx EXCEPT ![u] = @ + 1]
                  /\ pc' = [pc EXCEPT ![u] = "loop"]
                  /\ existing_product' = [existing_product EXCEPT ![u] = {}]
                  /\ product_schema' = [product_schema EXCEPT ![u] = {}]
                  /\ lastValid' = Remember(lastValid, d)
                  /\ UNCHANGED <<invalid_count, errors, session>>
    /\ UNCHANGED <<file, rows, response, vrow, vout, reply, listed>>

\* lines 93-98 and the return of upload_csv: the summary is sent
Return(u) ==
    /\ pc[u] = "loop"
    /\ LoopDone(u)
    /\ response' = [response EXCEPT ![u] = Summary(u)]
    /\ pc' = [pc EXCEPT ![u] = "idle"]
    /\ UNCHANGED <<db, file, rows, idx, valid_count, invalid_count, errors, session,
                   existing_product, product_schema, lastValid, vrow, vout, reply, listed>>

(***************************************************************************)
(* routes.list_products, routes.search_products and ProductService          *)
(***************************************************************************)
\* the largest page and the largest limit requested
MaxPage == 3

MaxLimit == 2

UpperCase == <<"A", "B", "C", "D", "E", "F", "G", "H", "I", "J", "K", "L", "M",
               "N", "O", "P", "Q", "R", "S", "T", "U", "V", "W", "X", "Y", "Z">>

LowerCase == <<"a", "b", "c", "d", "e", "f", "g", "h", "i", "j", "k", "l", "m",
               "n", "o", "p", "q", "r", "s", "t", "u", "v", "w", "x", "y", "z">>

\* lower() of one character
Lower(c) ==
    IF \E i \in 1..26 : UpperCase[i] = c
    THEN LowerCase[CHOOSE i \in 1..26 : UpperCase[i] = c]
    ELSE c

\* the LIKE operator on lowered operands: % matches any run of characters,
\* _ matches any one character, every other character matches itself
RECURSIVE Like(_, _)
Like(pattern, text) ==
    IF pattern = <<>> THEN text = <<>>
    ELSE IF Head(pattern) = "%"
    THEN Like(Tail(pattern), text) \/ (text # <<>> /\ Like(pattern, Tail(text)))
    ELSE IF Head(pattern) = "_"
    THEN text # <<>> /\ Like(Tail(pattern), Tail(text))
    ELSE /\ text # <<>>
         /\ Lower(Head(pattern)) = Lower(Head(text))
         /\ Like(Tail(pattern), Tail(text))

\* column.ilike(f"%{value}%"); a NULL column matches nothing
ILike(column, value) == column # None /\ Like(<<"%">> \o value \o <<"%">>, column)

\* if brand: / if color: (neither None nor the empty string)
Truthy(value) == value # None /\ value # <<>>

\* the WHERE clause search_products builds; an optional float is {} or {v}
Matches(r, brand, color, min_price, max_price) ==
    /\ Truthy(brand) => ILike(r.brand, brand)
    /\ Truthy(color) => ILike(r.color, color)
    /\ \A lo \in min_price : r.price >= lo
    /\ \A hi \in max_price : r.price <= hi

\* the orders in which a SELECT without ORDER BY may return the rows
Orderings(table) ==
    {o \in [1..Cardinality(table) -> table] :
        \A i \in 1..Cardinality(table) : \A j \in 1..Cardinality(table) :
            i # j => o[i] # o[j]}

\* .offset(offset).limit(limit) over the rows in the order returned
Slice(o, offset, limit) ==
    SubSeq(o, offset + 1, IF offset + limit < Len(o) THEN offset + limit ELSE Len(o))

\* offset = (page - 1) * limit
Offset(page, limit) == (page - 1) * limit

NoReply ==
    [kind |-> "none", status |-> 0, queries |-> 0, page |-> 0, limit |-> 0,
     brand |-> None, color |-> None, min_price |-> {}, max_price |-> {},
     total |-> 0, products |-> <<>>]

\* ProductService.get_products: a count query, then the page in the order o
get_products(table, page, limit, o) ==
    [NoReply EXCEPT !.kind = "list", !.status = 200, !.queries = 2,
                    !.page = page, !.limit = limit,
                    !.total = Cardinality(table),
                    !.products = Slice(o, Offset(page, limit), limit)]

\* the rows the filtered query selects
Filtered(table, brand, color, min_price, max_price) ==
    {r \in table : Matches(r, brand, color, min_price, max_price)}

\* ProductService.search_products: a count query over the filtered rows, then
\* the page of them in the order o
search_products(table, brand, color, min_price, max_price, page, limit, o) ==
    [kind |-> "search", status |-> 200, queries |-> 2, page |-> page, limit |-> limit,
     brand |-> brand, color |-> color, min_price |-> min_price, max_price |-> max_price,
     total |-> Cardinality(Filtered(table, brand, color, min_price, max_price)),
     products |-> Slice(o, Offset(page, limit), limit)]

\* Query(None, ge=0): a negative bound is refused before the handler runs
Unprocessable(min_price, max_price) ==
    (\E lo \in min_price : lo < 0) \/ (\E hi \in max_price : hi < 0)

\* mutant: a range check that also refuses minPrice = maxPrice
MinNotBelowMax(min_price, max_price) ==
    \E lo \in min_price : \E hi \in max_price : lo >= hi

\* minPrice is not None and maxPrice is not None and minPrice > maxPrice
PriceRangeInvalid(min_price, max_price) ==
    \E lo \in min_price : \E hi \in max_price : lo > hi

\* the response of a search that is answered without querying the store
Refused(code, brand, color, min_price, max_price, page, limit) ==
    [kind |-> "search", status |-> code, queries |-> 0, page |-> page, limit |-> limit,
     brand |-> brand, color |-> color, min_price |-> min_price, max_price |-> max_price,
     total |-> 0, products |-> <<>>]

\* the values of the search parameters; prices in hundredths
Brands == {None, <<>>, <<"a">>, <<"B">>, <<"_">>}

Colors == {None, <<"E", "d">>}

MinPrices == {{}, {0 - 100}, {0}, {85000}, {100000}}

MaxPrices == {{}, {50000}, {85000}, {90000}}

\* GET /products
ListProducts(page, limit) ==
    /\ \E o \in Orderings(db) : reply' = get_products(db, page, limit, o)
    /\ listed' = IF reply.kind = "list" THEN reply ELSE listed
    /\ UNCHANGED <<handlerVars, vrow, vout>>

\* GET /products/search
SearchProducts(brand, color, min_price, max_price, page, limit) ==
    /\ IF Unprocessable(min_price, max_price)
       THEN reply' = Refused(422, brand, color, min_price, max_price, page, limit)
       ELSE IF PriceRangeInvalid(min_price, max_price)
       THEN reply' = Refused(400, brand, color, min_price, max_price, page, limit)
       ELSE \E o \in Orderings(Filtered(db, brand, color, min_price, max_price)) :
              reply' = search_products(db, brand, color, min_price, max_price,
                                       page, limit, o)
    /\ UNCHANGED <<handlerVars, vrow, vout, listed>>

(***************************************************************************)
(* Specifications                                                          *)
(***************************************************************************)
Init ==
    /\ db = {}
    /\ pc = [u \in Uploads |-> "idle"]
    /\ file = [u \in Uploads |-> NoFile]
    /\ rows = [u \in Uploads |-> <<>>]
    /\ idx = [u \in Uploads |-> EnumerateStart]
    /\ valid_count = [u \in Uploads |-> 0]
    /\ invalid_count = [u \in Uploads |-> 0]
    /\ errors = [u \in Uploads |-> <<>>]
    /\ session = [u \in Uploads |-> "active"]
    /\ existing_product = [u \in Uploads |-> {}]
    /\ product_schema = [u \in Uploads |-> {}]
    /\ response = [u \in Uploads |-> NoResponse]
    /\ lastValid = {}
    /\ vrow = DictRow(Columns, <<A, N1, Br, Red, M, T10, T10, T0>>)
    /\ vout = NotRun
    /\ reply = NoReply
    /\ listed = NoReply

\* one request at a time: every upload ends before the next is received
Next ==
    \/ \E f \in Files : Upload("u1", f)
    \/ ProcessRow("u1")
    \/ Commit("u1")
    \/ Return("u1")

Spec == Init /\ [][Next]_vars

\* every started upload keeps running: the handler is a plain loop
FairSpec ==
    /\ Init
    /\ [][Next]_vars
    /\ WF_vars(ProcessRow("u1"))
    /\ WF_vars(Commit("u1"))
    /\ WF_vars(Return("u1"))

\* two handlers at once (two workers on one store), one upload each: their
\* row steps interleave in every order
NextConcurrent ==
    \E u \in Uploads :
        \/ \E f \in ConcurrentFiles : file[u] = NoFile /\ Upload(u, f)
        \/ ProcessRow(u)
        \/ Commit(u)
        \/ Return(u)

SpecConcurrent == Init /\ [][NextConcurrent]_vars

\* the validator alone, over every combination of cells
ValidatorRows ==
    [sku : {A, <<" ", " ">>, <<>>},
     name : {N1, <<>>},
     brand : {Br, Blank},
     color : {Red, Blank},
     size : {M},
     mrp : {T10, T0, <<"-", "5">>, <<"x">>, <<>>},
     price : {T10, T8, <<"1", "0", ".", "0", "1">>, T0, <<"x">>},
     quantity : {T5, T0, <<"-", "1">>, <<"1", ".", "5">>, <<>>}]

InitValidator ==
    /\ db = {}
    /\ pc = [u \in Uploads |-> "idle"]
    /\ file = [u \in Uploads |-> NoFile]
    /\ rows = [u \in Uploads |-> <<>>]
    /\ idx = [u \in Uploads |-> EnumerateStart]
    /\ valid_count = [u \in Uploads |-> 0]
    /\ invalid_count = [u \in Uploads |-> 0]
    /\ errors = [u \in Uploads |-> <<>>]
    /\ session = [u \in Uploads |-> "active"]
    /\ existing_product = [u \in Uploads |-> {}]
    /\ product_schema = [u \in Uploads |-> {}]
    /\ response = [u \in Uploads |-> NoResponse]
    /\ lastValid = {}
    /\ vrow \in ValidatorRows
    /\ vout = NotRun
    /\ reply = NoReply
    /\ listed = NoReply

\* lines 51-54 for the one row
Validate ==
    /\ vout = NotRun
    /\ vout' = ValidateRow(vrow)
    /\ UNCHANGED <<vrow, handlerVars, reply, listed>>

SpecValidator == InitValidator /\ [][Validate]_vars

\* three stored records in the manner of those the API tests seed, in
\* insertion order; the second was uploaded without color and size
Seeded ==
    << [id |-> 1, sku |-> <<"T", "1">>, name |-> N1, brand |-> <<"A", "b">>,
        color |-> <<"R", "e", "d">>, size |-> M, mrp |-> 100000, price |-> 80000,
        quantity |-> 10],
       [id |-> 2, sku |-> <<"T", "2">>, name |-> N2, brand |-> <<"A", "b">>,
        color |-> None, size |-> None, mrp |-> 120000, price |-> 90000,
        quantity |-> 5],
       [id |-> 3, sku |-> <<"T", "3">>, name |-> N1, brand |-> <<"b", "c">>,
        color |-> <<"R", "e", "d">>, size |-> M, mrp |-> 150000, price |-> 85000,
        quantity |-> 8] >>

\* a table of the first n seeded records, with no request under way
InitQuery ==
    /\ \E n \in 0..Len(Seeded) : db = {Seeded[i] : i \in 1..n}
    /\ pc = [u \in Uploads |-> "idle"]
    /\ file = [u \in Uploads |-> NoFile]
    /\ rows = [u \in Uploads |-> <<>>]
    /\ idx = [u \in Uploads |-> EnumerateStart]
    /\ valid_count = [u \in Uploads |-> 0]
    /\ invalid_count = [u \in Uploads |-> 0]
    /\ errors = [u \in Uploads |-> <<>>]
    /\ session = [u \in Uploads |-> "active"]
    /\ existing_product = [u \in Uploads |-> {}]
    /\ product_schema = [u \in Uploads |-> {}]
    /\ response = [u \in Uploads |-> NoResponse]
    /\ lastValid = {Fields(r) : r \in db}
    /\ vrow = DictRow(Columns, <<A, N1, Br, Red, M, T10, T10, T0>>)
    /\ vout = NotRun
    /\ reply = NoReply
    /\ listed = NoReply

\* listing requests, one after the other, on a table nothing writes to
NextList == \E page \in 1..MaxPage : \E limit \in 1..MaxLimit : ListProducts(page, limit)

SpecList == InitQuery /\ [][NextList]_vars

\* one search request on a table nothing writes to
NextSearch ==
    \E brand \in Brands : \E color \in Colors :
    \E min_price \in MinPrices : \E max_price \in MaxPrices :
    \E page \in 1..MaxPage : \E limit \in 1..MaxLimit :
        reply = NoReply /\ SearchProducts(brand, color, min_price, max_price, page, limit)

SpecSearch == InitQuery /\ [][NextSearch]_vars

(***************************************************************************)
(* Claims                                                                  *)
(***************************************************************************)
\* the lines of the inputs, by name
LineA1 == <<A, N1, Br, Red, M, T10, T10, T0>>

LineA2 == <<<<" ", "A", " ">>, N2, Br, Blank, <<>>, T10, T8, T5>>

\* C1: in every upload, after each row of the loop and in the summary returned,
\* the rows counted valid and invalid add up to the rows processed (all parsed
\* data rows, in the summary) and errors has one entry per row counted invalid
C1_CountsAddUp ==
    \A u \in Uploads :
        /\ valid_count[u] + invalid_count[u] = idx[u] - EnumerateStart
        /\ Len(errors[u]) = invalid_count[u]
        /\ response[u].body # <<>> =>
              /\ response[u].body[1].total_rows =
                    response[u].body[1].valid_rows + response[u].body[1].invalid_rows
              /\ Len(response[u].body[1].errors) = response[u].body[1].invalid_rows
        /\ (response[u].body # <<>> /\ pc[u] = "idle") =>
              response[u].body[1].total_rows = Len(file[u].lines) - 1

\* a summary of one row stored and one row lost to a store failure
C1_Witness ==
    \E u \in Uploads :
        /\ pc[u] = "idle"
        /\ response[u].body # <<>>
        /\ response[u].body[1].valid_rows = 1
        /\ response[u].body[1].invalid_rows = 1
        /\ response[u].body[1].errors[1].errors = <<OperationalError>>

\* C2: the products table never holds two rows with the same sku, whatever the
\* uploads, repeated skus within a file and interleaved uploads included
C2_OnePerSku == \A r \in db : \A q \in db : r.sku = q.sku => r = q

\* two uploads raced to insert the same sku and the index refused the second
C2_Witness ==
    /\ \E r \in db : r.sku = A
    /\ \E u \in Uploads : \E i \in 1..Len(errors[u]) :
          errors[u][i].errors = <<IntegrityError>>

\* C3: for every sku the stored fields are those of the last row counted valid
\* with that sku (and no sku without such a row is stored), one row per sku
C3_LastWriteWins ==
    /\ {Fields(r) : r \in db} = lastValid
    /\ \A r \in db : \A q \in db : r.sku = q.sku => r.id = q.id

\* one file held the sku twice; the later row, whose color and size are
\* absent, replaced every field of the earlier one and kept its id
C3_Witness ==
    /\ pc["u1"] = "idle"
    /\ file["u1"].lines = <<Columns, LineA1, LineA2>>
    /\ response["u1"].body # <<>>
    /\ response["u1"].body[1].valid_rows = 2
    /\ db = {[id |-> 1, sku |-> A, name |-> N2, brand |-> Br, color |-> None,
              size |-> None, mrp |-> 1000, price |-> 800, quantity |-> 5]}

\* C4: a .csv file that decodes but holds no data row (header only, or
\* nothing) is answered with a client error (4xx)
C4_EmptyFileIsClientError ==
    \A u \in Uploads :
        (/\ pc[u] = "idle"
         /\ response[u] # NoResponse
         /\ file[u].csv
         /\ file[u].utf8
         /\ Len(file[u].lines) <= 1) => response[u].status \in 400..499

\* the entry records an exception the store raised for the entry's own row
OwnStoreFailure(e) == e.errors \in {<<OperationalError>>, <<IntegrityError>>}

\* C5: a row that passes validation and on whose own query, update, insert
\* and commit the store raises nothing is counted valid, whatever happened to
\* the rows before it: a store failure costs only the row it happened on
C5_LaterRowsUnaffected ==
    \A u \in Uploads : \A i \in 1..Len(errors[u]) :
        ValidateRow(errors[u][i].data).kind = "ok" => OwnStoreFailure(errors[u][i])

\* the rows of handler u the loop has finished, by position in the file
Processed(u) == 1..(idx[u] - EnumerateStart)

\* the errors entries of handler u for its i-th data row
EntriesOf(u, i) == {k \in 1..Len(errors[u]) : errors[u][k].row = i + 1}

CountedValid(u, i) == i \in Processed(u) /\ EntriesOf(u, i) = {}

\* one step of a running upload: the rows are taken one at a time in file
\* order; a row counted valid is in the committed table before the next row is
\* begun; a row counted invalid leaves the committed table as it was; the
\* summary is sent only after the last row
C6_RowStep ==
    \A u \in Uploads :
        pc[u] # "idle" =>
            /\ rows'[u] = rows[u]
            /\ idx'[u] \in {idx[u], idx[u] + 1}
            /\ idx'[u] = idx[u] => db' = db
            /\ idx'[u] = idx[u] + 1 =>
                  \/ /\ valid_count'[u] = valid_count[u] + 1
                     /\ invalid_count'[u] = invalid_count[u]
                     /\ \E r \in db' : Fields(r) = ValidateRow(CurrentRow(u)).dump[1]
                  \/ /\ invalid_count'[u] = invalid_count[u] + 1
                     /\ valid_count'[u] = valid_count[u]
                     /\ errors'[u][Len(errors'[u])].row = idx[u]
                     /\ db' = db
            /\ pc'[u] = "idle" => idx[u] - EnumerateStart = Len(rows[u])

\* C6: within one upload the rows are processed in file order, one at a time,
\* each valid row committed before the next is begun; a failure on a row
\* neither undoes the earlier commits nor stops the later rows from being
\* attempted; every started upload finishes with each row processed once
C6_InOrderToCompletion ==
    /\ [][C6_RowStep]_vars
    /\ \A u \in Uploads :
          (pc[u] # "idle") ~>
              (/\ pc[u] = "idle"
               /\ response[u].body # <<>>
               /\ response[u].body[1].total_rows = Len(rows[u])
               /\ Processed(u) = 1..Len(rows[u]))

\* row 1 was committed, the store failed on row 2, the upload still finished
\* and row 1 is in the table
C6_Witness ==
    /\ pc["u1"] = "idle"
    /\ response["u1"].body # <<>>
    /\ response["u1"].body[1].total_rows = 2
    /\ response["u1"].body[1].valid_rows = 1
    /\ response["u1"].body[1].errors[1].row = 3
    /\ response["u1"].body[1].errors[1].errors = <<OperationalError>>
    /\ \E r \in db : r.sku = Strip(rows["u1"][1].sku)

\* the constraints a row breaks, as the claims list them
IsNumber(v) == IsFloatLiteral(Strip(v))

IsInteger(v) == IsIntLiteral(Strip(v))

Broken(row) ==
    {c \in {"sku", "name", "brand"} : Strip(row[c]) = <<>>}
    \cup {c \in {"mrp", "price"} : ~IsNumber(row[c])}
    \cup {c \in {"quantity"} : ~IsInteger(row[c])}
    \cup {c \in {"mrp > 0"} : IsNumber(row.mrp) /\ ~(FloatValue(Strip(row.mrp)) > 0)}
    \cup {c \in {"price > 0"} : IsNumber(row.price) /\ ~(FloatValue(Strip(row.price)) > 0)}
    \cup {c \in {"price <= mrp"} :
            /\ IsNumber(row.mrp)
            /\ IsNumber(row.price)
            /\ FloatValue(Strip(row.price)) > FloatValue(Strip(row.mrp))}
    \cup {c \in {"quantity >= 0"} : IsInteger(row.quantity) /\ IntValue(Strip(row.quantity)) < 0}

\* C7: a row that breaks two or more constraints gets at least two messages,
\* each naming a field
C7_AllConstraintsReported ==
    (vout # NotRun /\ Cardinality(Broken(vrow)) >= 2) =>
        /\ Len(vout.messages) >= 2
        /\ \A i \in 1..Len(vout.messages) : vout.messages[i][1] \in ProductFields

\* every record of the table meets the constraints
StoredOk(r) ==
    /\ r.sku # <<>> /\ r.sku = Strip(r.sku)
    /\ r.name # <<>> /\ r.name = Strip(r.name)
    /\ r.brand # <<>> /\ r.brand = Strip(r.brand)
    /\ r.mrp > 0
    /\ r.price > 0
    /\ r.price <= r.mrp
    /\ r.quantity >= 0

\* the store raised while the i-th row of handler u was written
StoreRaised(u, i) ==
    \E k \in EntriesOf(u, i) :
        errors[u][k].errors \in
            {<<OperationalError>>, <<IntegrityError>>, <<PendingRollbackError>>}

\* C8 as stated: a row is counted valid exactly when it meets the constraints
C8_ValidIffConstraints ==
    \A u \in Uploads : \A i \in Processed(u) :
        CountedValid(u, i) <=> Broken(rows[u][i]) = {}

\* C8, amended: a row is counted valid (and is then in the table) exactly when
\* it meets the constraints and the store raised nothing for it; every record
\* of the table meets the constraints
C8_ValidIffConstraintsAndStored ==
    /\ \A u \in Uploads : \A i \in Processed(u) :
          /\ CountedValid(u, i) <=> (Broken(rows[u][i]) = {} /\ ~StoreRaised(u, i))
          /\ CountedValid(u, i) => \E r \in db : r.sku = Strip(rows[u][i].sku)
    /\ \A r \in db : StoredOk(r)

\* price = mrp with quantity 0 is in the table; price = mrp + 0.01 and
\* quantity -1 were both refused
C8_Witness ==
    /\ pc["u1"] = "idle"
    /\ \E r \in db : r.price = r.mrp /\ r.quantity = 0
    /\ Len(rows["u1"]) = 2
    /\ Broken(rows["u1"][1]) = {"price <= mrp"}
    /\ Broken(rows["u1"][2]) = {"quantity >= 0"}
    /\ response["u1"].body # <<>>
    /\ response["u1"].body[1].invalid_rows = 2

\* C9: errors holds one entry per row counted invalid, in row order; the entry
\* of the N-th data row has row number N + 1 and that row's raw data
C9_ErrorEntries ==
    \A u \in Uploads :
        /\ Len(errors[u]) = invalid_count[u]
        /\ \A k \in 1..Len(errors[u]) :
              /\ errors[u][k].row - 1 \in Processed(u)
              /\ errors[u][k].data = rows[u][errors[u][k].row - 1]
              /\ k > 1 => errors[u][k - 1].row < errors[u][k].row
        /\ \A i \in Processed(u) :
              ValidateRow(rows[u][i]).kind # "ok" =>
                  \E k \in 1..Len(errors[u]) :
                      /\ errors[u][k].row = i + 1
                      /\ errors[u][k].errors = ValidateRow(rows[u][i]).messages
        /\ (pc[u] = "idle" /\ response[u].body # <<>>) =>
              response[u].body[1].errors = errors[u]

\* both rows of a file failed: the entries carry row 2 and row 3
C9_Witness ==
    /\ pc["u1"] = "idle"
    /\ response["u1"].body # <<>>
    /\ Len(response["u1"].body[1].errors) = 2
    /\ response["u1"].body[1].errors[1].row = 2
    /\ response["u1"].body[1].errors[2].row = 3
    /\ response["u1"].body[1].errors[2].data = rows["u1"][2]

\* a file named .csv whose bytes are not valid UTF-8
BadEncoding(f) == f.csv /\ ~f.utf8

\* the handler of such a file has answered 4xx without a summary and holds
\* no row, no count and no errors entry
C10_Rejected ==
    \A u \in Uploads :
        BadEncoding(file[u]) =>
            /\ pc[u] = "idle"
            /\ response[u].status \in 400..499
            /\ response[u].body = <<>>
            /\ rows[u] = <<>>
            /\ errors[u] = <<>>
            /\ valid_count[u] = 0
            /\ invalid_count[u] = 0

\* receiving such a file leaves the table as it was
C10_StoreUntouched ==
    \A u \in Uploads : (pc[u] = "idle" /\ BadEncoding(file'[u])) => db' = db

\* C10: a .csv file whose bytes are not UTF-8 is answered with a client error
\* and no summary; no row of it is validated or written, the table is as it was
C10_BadEncodingRejected == []C10_Rejected /\ [][C10_StoreUntouched]_vars

\* a file of one data line in a bad encoding, refused with the table not empty
C10_Witness ==
    /\ BadEncoding(file["u1"])
    /\ Len(file["u1"].lines) = 2
    /\ response["u1"].status = 400
    /\ db # {}

\* the skus of the stored records
StoredSkus(table) == {r.sku : r \in table}

\* C14: when uploads interleave on one sku, no valid row is refused by the
\* store as a duplicate (each upsert acts as one atomic insert-or-replace, so
\* every such row is counted valid), and the one record of the sku holds all
\* the field values of the row whose write committed last
C14_AtomicUpsert ==
    /\ \A u \in Uploads : \A k \in 1..Len(errors[u]) :
          errors[u][k].errors # <<IntegrityError>>
    /\ \A r \in db : Fields(r) \in lastValid

\* one row step seen from the table: a row counted invalid changes nothing;
\* a row counted valid touches only the record of its own sku and keeps the
\* id of the record it replaces; no step removes a sku
C15_RowFrame ==
    /\ StoredSkus(db) \subseteq StoredSkus(db')
    /\ (\A u \in Uploads : valid_count'[u] <= valid_count[u]) => db' = db
    /\ \A u \in Uploads :
          /\ invalid_count'[u] > invalid_count[u] => db' = db
          /\ valid_count'[u] > valid_count[u] =>
                LET sku == ValidatedRows[CurrentRow(u)].dump[1].sku
                IN  /\ \A r \in db : r.sku # sku => r \in db'
                    /\ \A q \in db' : q.sku # sku => q \in db
                    /\ \A r \in db : r.sku = sku =>
                          \E q \in db' : q.id = r.id /\ q.sku = sku
                    /\ \E q \in db' : q.sku = sku

\* C15: processing one row changes at most the stored record of that row's
\* sku: an invalid row leaves the whole table as it was, a valid row leaves
\* the records of other skus unchanged and keeps the id of the record it
\* replaces, and the set of stored skus only grows
C15_FrameEffect == [][C15_RowFrame]_vars

\* sku A was stored, then replaced under its id 1 next to the record of sku B,
\* and a row of sku A was counted invalid with that record in the table
C15_Witness ==
    /\ \E r \in db : r.sku = A /\ r.id = 1 /\ r.name = N2
    /\ \E r \in db : r.sku = B
    /\ \E k \in 1..Len(errors["u1"]) :
          /\ Strip(errors["u1"][k].data.sku) = A
          /\ errors["u1"][k].data.quantity = <<"-", "1">>

\* C11: two GET /products responses with the same limit, given on the same
\* table, are the slices (page-1)*limit .. page*limit-1 of one ordering of the
\* table, each of at most limit entries, with total the number of records
C11_StablePages ==
    (reply.kind = "list" /\ listed.kind = "list" /\ reply.limit = listed.limit) =>
        /\ reply.total = Cardinality(db)
        /\ listed.total = Cardinality(db)
        /\ Len(reply.products) <= reply.limit
        /\ \E o \in Orderings(db) :
              /\ reply.products = Slice(o, Offset(reply.page, reply.limit), reply.limit)
              /\ listed.products = Slice(o, Offset(listed.page, listed.limit), listed.limit)

\* value occurs in text as a substring, letter case aside
Contains(text, value) ==
    \/ value = <<>>
    \/ /\ text # None
       /\ \E i \in 1..Len(text) :
             /\ i + Len(value) - 1 <= Len(text)
             /\ \A k \in 1..Len(value) : Lower(text[i + k - 1]) = Lower(value[k])

\* record r meets every condition the request of response q supplied
Satisfies(r, q) ==
    /\ q.brand # None => Contains(r.brand, q.brand)
    /\ q.color # None => Contains(r.color, q.color)
    /\ \A lo \in q.min_price : r.price >= lo
    /\ \A hi \in q.max_price : r.price <= hi

\* C12: every record a search returns satisfies all the supplied conditions
\* (brand and color as case-insensitive substrings, price within the bounds),
\* total is the number of stored records that do, and a search with no
\* condition matches every record
C12_FiltersAreConjunction ==
    (reply.kind = "search" /\ reply.status = 200) =>
        /\ \A k \in 1..Len(reply.products) : Satisfies(reply.products[k], reply)
        /\ reply.total = Cardinality({r \in db : Satisfies(r, reply)})

\* C13: a search whose minPrice and maxPrice are both given with
\* minPrice > maxPrice is answered 400 without a store query; any other
\* search the parameter checks accept is answered from the store
C13_PriceRangeChecked ==
    (reply.kind = "search" /\ ~Unprocessable(reply.min_price, reply.max_price)) =>
        IF \E lo \in reply.min_price : \E hi \in reply.max_price : lo > hi
        THEN reply.status = 400 /\ reply.queries = 0 /\ reply.products = <<>>
        ELSE reply.status = 200 /\ reply.queries > 0

\* minPrice=1000&maxPrice=500 was refused on a table that holds a record
\* priced between the two
C13_Witness ==
    /\ \E r \in db : r.price = 85000
    /\ reply.kind = "search"
    /\ reply.status = 400
    /\ reply.queries = 0
    /\ reply.min_price = {100000}
    /\ reply.max_price = {50000}

====
